---- MODULE Spec2Model ----
(***************************************************************************)
(* Student QR attendance system (src/app.py): the two SQLite stores, the   *)
(* qr_codes directory, the process-wide current_subject and the six JSON   *)
(* endpoints.                                                              *)
(*                                                                         *)
(* SQLite is modelled by what the statements of app.py do on the schema    *)
(* of init_db: a table is a multiset of rows (students, which has no       *)
(* ordering column) or a set of rows carrying their unique log_id          *)
(* (attendance).  SQL NULL and a JSON null are the value Null; a field     *)
(* that the request body does not carry is Missing.  Faults of the         *)
(* storage engine itself (a locked or unreadable database file) are not    *)
(* part of the model: every failure here is caused by the request.         *)
(*                                                                         *)
(* Spec runs each handler from request to response in one step.  SpecConc  *)
(* runs the handlers as the threaded development server does, one thread   *)
(* for each request and one step for each statement that touches shared    *)
(* state, in every interleaving.                                           *)
(***************************************************************************)
EXTENDS Integers, Sequences, FiniteSets, Bags, TLC

VARIABLES
    students,         \* table students of data/student_data.db: a bag of rows
    subjects,         \* table subjects of data/student_data.db: a set of rows
    attendance,       \* table attendance of data/attendance.db: a set of rows
    seq,              \* sqlite_sequence entry of attendance (AUTOINCREMENT)
    files,            \* names of the files in qr_codes/
    current_subject,  \* the module-level global of app.py
    now,              \* CURRENT_TIMESTAMP when attendance.db was last written
    last,             \* the last request served, its response and the
                      \* attendance rows written while serving it
    th                \* the thread the server starts for each request it
                      \* is sent: its position in the handler and the
                      \* handler's locals

vars == <<students, subjects, attendance, seq, files, current_subject, now,
          last, th>>

----------------------------------------------------------------------------
(* Bounds and input domains *)

MaxStudents == 2      \* rows the students table may hold
MaxLogId == 2         \* largest log_id handed out
MaxClock == 1         \* largest timestamp
MaxRequests == 3      \* requests the threaded server is sent

Null == "<null>"
Missing == "<missing>"

RollNos == {"BCA001", "x/y"}
Names == {"Asha", "Ravi"}
\* request bodies of POST /register: a roll number under either name, a
\* roll number that holds a path separator, a null roll number, and one
\* body for each way a field can be unusable
RegisterInputs ==
    ({"BCA001"} \X Names)
        \cup {<<"x/y", "Asha">>, <<Null, "Asha">>}
        \cup {<<Missing, "Asha">>, <<"BCA001", Missing>>, <<"BCA001", Null>>}
\* request bodies of POST /scan
ScanInputs == RollNos \cup {Null, Missing}
\* request bodies of POST /set-subject
SubjectInputs == {"BCA-501", "BCA-502", "BCA-999", Null, Missing}

----------------------------------------------------------------------------
(* Schema and seed data *)

\* init_db: the five subjects inserted at startup
SeedSubjects ==
    { [subject_id |-> "BCA-501", subject_name |-> "DBMS"],
      [subject_id |-> "BCA-502", subject_name |-> "JAVA"],
      [subject_id |-> "BCA-503", subject_name |-> "CN"],
      [subject_id |-> "BCA-504", subject_name |-> "DBMS-LAB"],
      [subject_id |-> "BCA-505", subject_name |-> "JAVA-LAB"] }

\* BINARY collation of the subject names, as ORDER BY subject_name uses it
NameCollation == <<"CN", "DBMS", "DBMS-LAB", "JAVA", "JAVA-LAB">>

----------------------------------------------------------------------------
(* What the SQL statements of app.py do *)

\* SQL "=": a NULL operand never compares equal
SqlEq(a, b) == a # Null /\ b # Null /\ a = b

\* cursor.fetchone(): no row, or the first row of the result
FetchOne(rows) == IF rows = {} THEN {} ELSE {CHOOSE r \in rows : TRUE}

\* SELECT * FROM students WHERE roll_no = ?
SelectStudent(tbl, roll_no) ==
    {row \in BagToSet(tbl) : SqlEq(row.roll_no, roll_no)}

\* Variant: the table is created without PRIMARY KEY on roll_no
StudentConstraintFails_NoPrimaryKey(tbl, roll_no, name) == name = Null

\* INSERT INTO students: sqlite3.IntegrityError when the PRIMARY KEY roll_no
\* collides with a stored row or the NOT NULL column name gets NULL.  A TEXT
\* PRIMARY KEY of a rowid table admits NULL, and NULLs never collide.
StudentConstraintFails(tbl, roll_no, name) ==
    \/ name = Null
    \/ SelectStudent(tbl, roll_no) # {}

\* INSERT INTO students (roll_no, name) VALUES (?, ?)
InsertStudent(tbl, roll_no, name) ==
    tbl (+) SetToBag({[roll_no |-> roll_no, name |-> name]})

\* Variant: the SELECT has lost its WHERE clause
SelectSubjectName_NoWhere(tbl, subject_id) ==
    {row.subject_name : row \in tbl}

\* SELECT subject_name FROM subjects WHERE subject_id = ?
SelectSubjectName(tbl, subject_id) ==
    {row.subject_name : row \in {r \in tbl : SqlEq(r.subject_id, subject_id)}}

\* SELECT * FROM subjects ORDER BY subject_name
SortedSubjects(tbl) ==
    LET present == SelectSeq(NameCollation,
                             LAMBDA n : \E r \in tbl : r.subject_name = n)
    IN  [i \in 1..Len(present) |->
            CHOOSE r \in tbl : r.subject_name = present[i]]

\* log_id INTEGER PRIMARY KEY AUTOINCREMENT: one more than the largest
\* log_id the table has ever held
MaxOf(S) == CHOOSE m \in S : \A x \in S : x <= m
NextLogId(tbl, s) == MaxOf({s} \cup {r.log_id : r \in tbl}) + 1

\* The row that INSERT ... (roll_no, subject_id, status) VALUES (?, ?, ?)
\* builds: log_id from AUTOINCREMENT, datetime from DEFAULT CURRENT_TIMESTAMP
AttendanceRow(tbl, s, roll_no, subject_id, status, t) ==
    [log_id |-> NextLogId(tbl, s), roll_no |-> roll_no,
     subject_id |-> subject_id, datetime |-> t, status |-> status]

\* INSERT OR REPLACE INTO attendance: rows that collide with the new row on
\* a uniqueness constraint are deleted first; the only one is the PRIMARY
\* KEY log_id
InsertOrReplaceAttendance(tbl, row) ==
    {r \in tbl : r.log_id # row.log_id} \cup {row}

\* CURRENT_TIMESTAMP at a write: the clock of the storage engine has one-second
\* resolution and does not run backwards, so a row is stamped with the second
\* of the previous write or with a later one
CurrentTimestamps == {t \in {now, now + 1} : t <= MaxClock}

\* All orders of the rows of a table
Orders(tbl) ==
    {s \in [1..Cardinality(tbl) -> tbl] :
        \A i, j \in 1..Cardinality(tbl) : i # j => s[i] # s[j]}

\* SELECT * FROM attendance ORDER BY datetime DESC: rows of equal datetime
\* come in an order the engine chooses
AttendanceByDatetimeDesc(tbl) ==
    {s \in Orders(tbl) :
        \A i, j \in 1..Cardinality(tbl) :
            i < j => s[i].datetime >= s[j].datetime}

----------------------------------------------------------------------------
(* generate_qr_code *)

\* str(roll_no), as the f-string and qr.add_data format it
Str(roll_no) == IF roll_no = Null THEN "None" ELSE roll_no

\* f'qr_codes/{roll_no}.png' names a file in a directory that does not
\* exist when roll_no holds a path separator: img.save raises
PathHasSeparator == {"x/y"}
SaveRaises(roll_no) == Str(roll_no) \in PathHasSeparator

\* base64 of the PNG of the QR code whose payload is str(roll_no)
QrCodeBase64(roll_no) == <<"base64", "png", Str(roll_no)>>

----------------------------------------------------------------------------
(* Requests and responses *)

Request(op, roll_no, name, subject_id) ==
    [op |-> op, roll_no |-> roll_no, name |-> name, subject_id |-> subject_id]

NoPayload == <<>>

\* jsonify(...) returned by the handler; success is "none" when the
\* payload carries no success key
Json(success, error, payload) ==
    [raised |-> FALSE, success |-> success, error |-> error,
     payload |-> payload]

\* an exception that leaves the handler
Raised(exc) ==
    [raised |-> TRUE, success |-> "none", error |-> exc, payload |-> NoPayload]

NoRequest == Request("none", Missing, Missing, Missing)

Served(req, resp, wrote) == [req |-> req, resp |-> resp, wrote |-> wrote]

NothingServed == Served(NoRequest, Json("none", "", NoPayload), {})

\* f'qr_codes/{roll_no}.png'
FileName(roll_no) == <<"qr_codes", Str(roll_no), "png">>

\* current_subject = {'subject_id': ..., 'subject_name': ...}
Subject(subject_id, subject_name) ==
    [subject_id |-> subject_id, subject_name |-> subject_name]

DefaultSubject == Subject("BCA-501", "DBMS")

\* Variants: clear_data leaves out one of its DELETE statements
DeleteAllStudents_Skipped(tbl) == tbl
DeleteAllAttendance_Skipped(tbl) == tbl

\* DELETE FROM students / DELETE FROM attendance; sqlite_sequence is kept
DeleteAllStudents(tbl) == EmptyBag
DeleteAllAttendance(tbl) == {}

\* The threads of app.run(debug=True, ...), one for each request in the
\* order the requests arrive, and the locals of a handler
Threads == 1..MaxRequests
Idle ==
    [pc |-> "new", req |-> NoRequest, subject_id |-> Missing,
     student |-> {}, result |-> {}, rows |-> EmptyBag, wrote |-> {}]
Done == [Idle EXCEPT !.pc = "done"]

----------------------------------------------------------------------------
(* What each handler computes *)

\* register_student: the response once the row is committed
RegisterResponse(roll_no) ==
    IF SaveRaises(roll_no)
    THEN Json("false", "FileNotFoundError", NoPayload)  \* except Exception
    ELSE Json("true", "", QrCodeBase64(roll_no))

\* generate_qr_code: the directory after img.save
SaveQrCode(dir, roll_no) ==
    IF SaveRaises(roll_no) THEN dir ELSE dir \cup {FileName(roll_no)}

DuplicateResponse == Json("false", "Roll number already exists", NoPayload)

ClearResponse == Json("true", "", "All data cleared successfully")

\* show_data: the snapshot, which carries no success key
DataResponse(student_rows, subject_rows, attendance_rows) ==
    Json("none", "",
         [students |-> student_rows, subjects |-> subject_rows,
          attendance |-> attendance_rows])

SubjectsResponse(subject_rows, cur) ==
    Json("true", "", [subjects |-> subject_rows, current |-> cur])

\* Variant: the global is assigned before the result is tested
AssignCurrentSubject_Unchecked(cur, subject_id, result) ==
    Subject(subject_id,
            IF result # {} THEN CHOOSE n \in result : TRUE ELSE Null)

\* set_subject: the value it leaves in the global, given fetchone()'s result
AssignCurrentSubject(cur, subject_id, result) ==
    IF result # {}
    THEN Subject(subject_id, CHOOSE n \in result : TRUE)
    ELSE cur

\* set_subject: the response, which reads the global again
SetSubjectResponse(result, cur) ==
    IF result # {}
    THEN Json("true", "", [current |-> cur])
    ELSE Json("false", "Subject not found", NoPayload)

\* Variant: the INSERT runs whether or not the student was found
MarkAttendance_Unconditional(tbl, s, student, roll_no, subject_id, t) ==
    InsertOrReplaceAttendance(tbl,
        AttendanceRow(tbl, s, roll_no, subject_id, "Present", t))

\* scan_qr: the attendance table it leaves, given fetchone()'s result
MarkAttendance(tbl, s, student, roll_no, subject_id, t) ==
    IF student # {}
    THEN InsertOrReplaceAttendance(tbl,
             AttendanceRow(tbl, s, roll_no, subject_id, "Present", t))
    ELSE tbl

\* Variant: the response reads current_subject again instead of the local
ScanResponse_ReadsGlobal(student, subject_id) ==
    IF student # {}
    THEN LET row == CHOOSE r \in student : TRUE IN
         Json("true", "",
              [roll_no |-> row.roll_no, name |-> row.name,
               subject_id |-> current_subject.subject_id,
               status |-> "Present"])
    ELSE Json("false", "Student not found", NoPayload)

\* scan_qr: the response, given fetchone()'s result
ScanResponse(student, subject_id) ==
    IF student # {}
    THEN LET row == CHOOSE r \in student : TRUE IN
         Json("true", "",
              [roll_no |-> row.roll_no, name |-> row.name,
               subject_id |-> subject_id, status |-> "Present"])
    ELSE Json("false", "Student not found", NoPayload)

\* sqlite_sequence after a statement
SeqAfter(s, tbl) == MaxOf({s} \cup {r.log_id : r \in tbl})

----------------------------------------------------------------------------
(* The state after init_db() on empty stores *)

Init ==
    /\ students = EmptyBag
    /\ subjects = SeedSubjects
    /\ attendance = {}
    /\ seq = 0
    /\ files = {}
    /\ current_subject = DefaultSubject
    /\ now = 0
    /\ last = NothingServed
    /\ th = [t \in Threads |-> Idle]

----------------------------------------------------------------------------
(* The handlers, each run from request to response *)

\* POST /register
register_student(roll_no, name) ==
    LET req == Request("register", roll_no, name, Missing) IN
    /\ IF roll_no = Missing \/ name = Missing
       THEN \* data['roll_no'], data['name']: KeyError before the try
            /\ last' = Served(req, Raised("KeyError"), {})
            /\ UNCHANGED <<students, files>>
       ELSE IF StudentConstraintFails(students, roll_no, name)
       THEN \* except sqlite3.IntegrityError
            /\ last' = Served(req, DuplicateResponse, {})
            /\ UNCHANGED <<students, files>>
       ELSE /\ BagCardinality(students) < MaxStudents
            /\ students' = InsertStudent(students, roll_no, name)
            /\ files' = SaveQrCode(files, roll_no)
            /\ last' = Served(req, RegisterResponse(roll_no), {})
    /\ UNCHANGED <<subjects, attendance, seq, current_subject, now, th>>

\* POST /clear-data
clear_data ==
    /\ students' = DeleteAllStudents(students)
    /\ attendance' = DeleteAllAttendance(attendance)
    /\ last' = Served(Request("clear-data", Missing, Missing, Missing),
                      ClearResponse, {})
    /\ UNCHANGED <<subjects, seq, files, current_subject, now, th>>

\* GET /data
show_data ==
    /\ \E rows \in AttendanceByDatetimeDesc(attendance) :
          last' = Served(Request("data", Missing, Missing, Missing),
                         DataResponse(students, SortedSubjects(subjects),
                                      rows), {})
    /\ UNCHANGED <<students, subjects, attendance, seq, files,
                   current_subject, now, th>>

\* GET /get-subjects
get_subjects ==
    /\ last' = Served(Request("get-subjects", Missing, Missing, Missing),
                      SubjectsResponse(SortedSubjects(subjects),
                                       current_subject), {})
    /\ UNCHANGED <<students, subjects, attendance, seq, files,
                   current_subject, now, th>>

\* POST /set-subject
set_subject(subject_id) ==
    LET req == Request("set-subject", Missing, Missing, subject_id)
        result == FetchOne(SelectSubjectName(subjects, subject_id))
    IN
    /\ IF subject_id = Missing
       THEN \* data['subject_id']: KeyError inside the try
            /\ last' = Served(req, Json("false", "'subject_id'", NoPayload),
                              {})
            /\ UNCHANGED current_subject
       ELSE /\ current_subject' =
                   AssignCurrentSubject(current_subject, subject_id, result)
            /\ last' = Served(req,
                              SetSubjectResponse(result, current_subject'),
                              {})
    /\ UNCHANGED <<students, subjects, attendance, seq, files, now, th>>

\* POST /scan
scan_qr(roll_no) ==
    LET req == Request("scan", roll_no, Missing, Missing)
        subject_id == current_subject.subject_id
        student == FetchOne(SelectStudent(students, roll_no))
    IN
    /\ IF roll_no = Missing
       THEN \* data['roll_no']: KeyError before the try
            /\ last' = Served(req, Raised("KeyError"), {})
            /\ UNCHANGED <<attendance, seq, now>>
       ELSE /\ student # {} => NextLogId(attendance, seq) <= MaxLogId
            /\ \E t \in CurrentTimestamps :
                  /\ attendance' = MarkAttendance(attendance, seq, student,
                                                  roll_no, subject_id, t)
                  /\ now' = IF student # {} THEN t ELSE now
            /\ seq' = SeqAfter(seq, attendance')
            /\ last' = Served(req, ScanResponse(student, subject_id),
                              attendance' \ attendance)
    /\ UNCHANGED <<students, subjects, files, current_subject, th>>

\* The process is started again: init_db() on the stores as they are
\* (INSERT OR IGNORE of the seed rows) and the module-level assignment of
\* current_subject
Restart ==
    /\ subjects' = subjects \cup
          {r \in SeedSubjects :
              \A old \in subjects : old.subject_id # r.subject_id}
    /\ current_subject' = DefaultSubject
    /\ last' = NothingServed
    /\ UNCHANGED <<students, attendance, seq, files, now, th>>

Next ==
    \/ \E body \in RegisterInputs : register_student(body[1], body[2])
    \/ \E roll_no \in ScanInputs : scan_qr(roll_no)
    \/ \E subject_id \in SubjectInputs : set_subject(subject_id)
    \/ clear_data
    \/ show_data
    \/ get_subjects
    \/ Restart

Spec == Init /\ [][Next]_vars

----------------------------------------------------------------------------
(* The handlers as the threaded server runs them: one step for each        *)
(* statement that reads or writes the stores, the directory or the global  *)

\* request bodies sent while other requests are in flight
ConcRegisterInputs == {<<"BCA001", "Asha">>, <<"BCA001", Missing>>}
ConcScanInputs == {"BCA001", Missing}
ConcSubjectInputs == {"BCA-502", "BCA-501", "BCA-999", Missing}

At(t, pc) == th[t].pc = pc
Arrives(t) == At(t, "new") /\ (IF t = 1 THEN TRUE ELSE ~At(t - 1, "new"))
Goto(t, rec) == th' = [th EXCEPT ![t] = rec]
Respond(t, req, resp, wrote) ==
    /\ last' = Served(req, resp, wrote)
    /\ th' = [th EXCEPT ![t] = Done]
Finish(t, resp) == Respond(t, th[t].req, resp, th[t].wrote)

\* register_student up to conn.commit()
register_insert(t, roll_no, name) ==
    LET req == Request("register", roll_no, name, Missing) IN
    /\ Arrives(t)
    /\ IF roll_no = Missing \/ name = Missing
       THEN /\ Respond(t, req, Raised("KeyError"), {})
            /\ UNCHANGED students
       ELSE IF StudentConstraintFails(students, roll_no, name)
       THEN /\ Respond(t, req, DuplicateResponse, {})
            /\ UNCHANGED students
       ELSE /\ BagCardinality(students) < MaxStudents
            /\ students' = InsertStudent(students, roll_no, name)
            /\ Goto(t, [Idle EXCEPT !.pc = "register_qr", !.req = req])
            /\ UNCHANGED last
    /\ UNCHANGED <<subjects, attendance, seq, files, current_subject, now>>

\* register_student from generate_qr_code(roll_no) to the response
register_qr(t) ==
    /\ At(t, "register_qr")
    /\ files' = SaveQrCode(files, th[t].req.roll_no)
    /\ Finish(t, RegisterResponse(th[t].req.roll_no))
    /\ UNCHANGED <<students, subjects, attendance, seq, current_subject, now>>

\* clear_data: DELETE FROM students, commit
clear_students(t) ==
    /\ Arrives(t)
    /\ students' = DeleteAllStudents(students)
    /\ Goto(t, [Idle EXCEPT !.pc = "clear_attendance",
                            !.req = Request("clear-data", Missing, Missing,
                                            Missing)])
    /\ UNCHANGED <<subjects, attendance, seq, files, current_subject, now,
                   last>>

\* clear_data: DELETE FROM attendance, commit, respond
clear_attendance(t) ==
    /\ At(t, "clear_attendance")
    /\ attendance' = DeleteAllAttendance(attendance)
    /\ Finish(t, ClearResponse)
    /\ UNCHANGED <<students, subjects, seq, files, current_subject, now>>

\* show_data: the two SELECTs on student_data.db.  The rows of subjects are
\* taken when the response is built: no statement of app.py writes that
\* table after init_db, so the two readings agree
data_students(t) ==
    /\ Arrives(t)
    /\ Goto(t, [Idle EXCEPT !.pc = "data_attendance",
                            !.req = Request("data", Missing, Missing,
                                            Missing),
                            !.rows = students])
    /\ UNCHANGED <<students, subjects, attendance, seq, files,
                   current_subject, now, last>>

\* show_data: the SELECT on attendance.db, respond
data_attendance(t) ==
    /\ At(t, "data_attendance")
    /\ \E rows \in AttendanceByDatetimeDesc(attendance) :
          Finish(t, DataResponse(th[t].rows, SortedSubjects(subjects), rows))
    /\ UNCHANGED <<students, subjects, attendance, seq, files,
                   current_subject, now>>

\* get_subjects
subjects_get(t) ==
    /\ Arrives(t)
    /\ Respond(t, Request("get-subjects", Missing, Missing, Missing),
               SubjectsResponse(SortedSubjects(subjects), current_subject),
               {})
    /\ UNCHANGED <<students, subjects, attendance, seq, files,
                   current_subject, now>>

\* set_subject: data['subject_id']
set_begin(t, subject_id) ==
    LET req == Request("set-subject", Missing, Missing, subject_id) IN
    /\ Arrives(t)
    /\ IF subject_id = Missing
       THEN Respond(t, req, Json("false", "'subject_id'", NoPayload), {})
       ELSE /\ Goto(t, [Idle EXCEPT !.pc = "set_select", !.req = req])
            /\ UNCHANGED last
    /\ UNCHANGED <<students, subjects, attendance, seq, files,
                   current_subject, now>>

\* set_subject: the SELECT and fetchone()
set_select(t) ==
    LET result == FetchOne(SelectSubjectName(subjects,
                                             th[t].req.subject_id)) IN
    /\ At(t, "set_select")
    /\ Goto(t, [th[t] EXCEPT !.result = result,
                             !.pc = IF result # {} THEN "set_assign"
                                    ELSE "set_respond"])
    /\ UNCHANGED <<students, subjects, attendance, seq, files,
                   current_subject, now, last>>

\* set_subject: current_subject = {...}
set_assign(t) ==
    /\ At(t, "set_assign")
    /\ current_subject' = AssignCurrentSubject(current_subject,
                              th[t].req.subject_id, th[t].result)
    /\ Goto(t, [th[t] EXCEPT !.pc = "set_respond"])
    /\ UNCHANGED <<students, subjects, attendance, seq, files, now, last>>

\* set_subject: jsonify(..., 'current': current_subject)
set_respond(t) ==
    /\ At(t, "set_respond")
    /\ Finish(t, SetSubjectResponse(th[t].result, current_subject))
    /\ UNCHANGED <<students, subjects, attendance, seq, files,
                   current_subject, now>>

\* scan_qr: data['roll_no'] and subject_id = current_subject['subject_id']
scan_begin(t, roll_no) ==
    LET req == Request("scan", roll_no, Missing, Missing) IN
    /\ Arrives(t)
    /\ IF roll_no = Missing
       THEN Respond(t, req, Raised("KeyError"), {})
       ELSE /\ Goto(t, [Idle EXCEPT !.pc = "scan_select", !.req = req,
                             !.subject_id = current_subject.subject_id])
            /\ UNCHANGED last
    /\ UNCHANGED <<students, subjects, attendance, seq, files,
                   current_subject, now>>

\* scan_qr: the SELECT on students and fetchone()
scan_select(t) ==
    LET student == FetchOne(SelectStudent(students, th[t].req.roll_no)) IN
    /\ At(t, "scan_select")
    /\ Goto(t, [th[t] EXCEPT !.student = student,
                             !.pc = IF student # {} THEN "scan_insert"
                                    ELSE "scan_respond"])
    /\ UNCHANGED <<students, subjects, attendance, seq, files,
                   current_subject, now, last>>

\* scan_qr: INSERT OR REPLACE INTO attendance, commit
scan_insert(t) ==
    /\ At(t, "scan_insert")
    /\ NextLogId(attendance, seq) <= MaxLogId
    /\ \E ts \in CurrentTimestamps :
          /\ attendance' = MarkAttendance(attendance, seq, th[t].student,
                               th[t].req.roll_no, th[t].subject_id, ts)
          /\ now' = ts
    /\ seq' = SeqAfter(seq, attendance')
    /\ Goto(t, [th[t] EXCEPT !.pc = "scan_respond",
                             !.wrote = attendance' \ attendance])
    /\ UNCHANGED <<students, subjects, files, current_subject, last>>

\* scan_qr: the response
scan_respond(t) ==
    /\ At(t, "scan_respond")
    /\ Finish(t, ScanResponse(th[t].student, th[t].subject_id))
    /\ UNCHANGED <<students, subjects, attendance, seq, files,
                   current_subject, now>>

NextConc ==
    \E t \in Threads :
        \/ \E body \in ConcRegisterInputs :
              register_insert(t, body[1], body[2])
        \/ register_qr(t)
        \/ clear_students(t)
        \/ clear_attendance(t)
        \/ data_students(t)
        \/ data_attendance(t)
        \/ subjects_get(t)
        \/ \E subject_id \in ConcSubjectInputs : set_begin(t, subject_id)
        \/ set_select(t)
        \/ set_assign(t)
        \/ set_respond(t)
        \/ \E roll_no \in ConcScanInputs : scan_begin(t, roll_no)
        \/ scan_select(t)
        \/ scan_insert(t)
        \/ scan_respond(t)

SpecConc == Init /\ [][NextConc]_vars

----------------------------------------------------------------------------
(* Properties *)

RowsFor(tbl, roll_no, subject_id) ==
    {r \in tbl : r.roll_no = roll_no /\ r.subject_id = subject_id}

StudentRowsWith(tbl, roll_no) ==
    {row \in BagToSet(tbl) : row.roll_no = roll_no}

ScanPcs == {"scan_select", "scan_insert", "scan_respond"}

\* C1: in every reachable state the attendance table holds at most one row
\* for each (roll_no, subject_id) pair, and that row has status Present: a
\* later scan of the same student under the same subject overwrites.
C1_OneRowPerStudentAndSubject ==
    \A r \in attendance :
        /\ r.status = "Present"
        /\ Cardinality(RowsFor(attendance, r.roll_no, r.subject_id)) <= 1

C3_UnknownSubjectLeavesCurrent ==
    [][ (/\ last'.req.op = "set-subject"
         /\ SelectSubjectName(subjects, last'.req.subject_id) = {})
        => /\ ~last'.resp.raised
           /\ last'.resp.success = "false"
           /\ current_subject' = current_subject
           /\ students' = students
           /\ subjects' = subjects
           /\ attendance' = attendance
           /\ seq' = seq
      ]_vars

\* C3 witness: an unknown subject was just refused while the active subject
\* is one that an earlier /set-subject selected.
C3_Witness ==
    /\ last.req.op = "set-subject"
    /\ last.resp.error = "Subject not found"
    /\ last.req.subject_id = "BCA-999"
    /\ current_subject = Subject("BCA-502", "JAVA")

C5_UnknownStudentWritesNothing ==
    [][ (/\ last'.req.op = "scan"
         /\ last'.req.roll_no # Missing
         /\ SelectStudent(students, last'.req.roll_no) = {})
        => /\ ~last'.resp.raised
           /\ last'.resp.success = "false"
           /\ last'.resp.error = "Student not found"
           /\ last'.wrote = {}
           /\ attendance' = attendance
           /\ seq' = seq
           /\ students' = students
           /\ current_subject' = current_subject
      ]_vars

\* C5 witness: an unregistered roll number was just scanned while another
\* student is registered and has attendance.
C5_Witness ==
    /\ last.req.op = "scan"
    /\ last.resp.error = "Student not found"
    /\ last.req.roll_no \in RollNos
    /\ students # EmptyBag
    /\ attendance # {}

\* C6: every request that fails is answered with a structured payload that
\* carries success=false and an error message; no exception leaves a
\* handler, whatever fields the request body lacks.
C6_FailuresAreStructured ==
    /\ ~last.resp.raised
    /\ last.resp.success # "true"
       => \/ last.req.op \in {"none", "data"}
          \/ last.resp.success = "false" /\ last.resp.error # ""

\* C7: under every interleaving, a scan reads current_subject once, when it
\* starts; if it finds the student it writes one attendance row (roll_no of
\* the request, that subject_id, Present) and answers with the subject_id
\* of the row it wrote.
C7_ScanUsesSubjectReadAtStart ==
    [][ \A t \in Threads :
          /\ (th[t].pc = "new" /\ th'[t].pc = "scan_select")
             => th'[t].subject_id = current_subject.subject_id
          /\ (th[t].pc \in ScanPcs /\ th'[t].pc \in ScanPcs)
             => th'[t].subject_id = th[t].subject_id
          /\ (th[t].pc = "scan_respond" /\ th'[t].pc = "done"
                 /\ th[t].student # {})
             => /\ last'.resp.success = "true"
                /\ last'.wrote = th[t].wrote
                /\ Cardinality(th[t].wrote) = 1
                /\ \A w \in th[t].wrote :
                      /\ w.roll_no = th[t].req.roll_no
                      /\ w.subject_id = th[t].subject_id
                      /\ w.status = "Present"
                      /\ last'.resp.payload.subject_id = w.subject_id
      ]_vars

\* C7 witness: a scan has just answered with the subject of the row it
\* wrote while a /set-subject that ran during the scan has made another
\* subject the active one.
C7_Witness ==
    /\ last.req.op = "scan"
    /\ last.resp.success = "true"
    /\ \E w \in last.wrote :
          /\ w.subject_id = last.resp.payload.subject_id
          /\ w.subject_id # current_subject.subject_id

\* C8: every row of students has its image file qr_codes/<roll_no>.png; a
\* /register never leaves a row stored while it answers success:false.
C8_EveryStudentHasImage ==
    /\ \A row \in BagToSet(students) : FileName(row.roll_no) \in files
    /\ (last.req.op = "register" /\ last.resp.success = "false")
       => \A row \in BagToSet(students) :
             row.roll_no = last.req.roll_no => FileName(row.roll_no) \in files

\* C9: under every interleaving the subjects table keeps exactly its seeded
\* rows, current_subject is one of its rows, and the subject_id of every
\* attendance row is the subject_id of a row of subjects.
C9_SubjectsAlwaysResolve ==
    /\ subjects = SeedSubjects
    /\ current_subject \in subjects
    /\ \A r \in attendance :
          \E sub \in subjects : sub.subject_id = r.subject_id

\* C9 witness: an attendance row names a subject other than the active one,
\* which a /set-subject selected.
C9_Witness ==
    /\ current_subject # DefaultSubject
    /\ \E r \in attendance : r.subject_id # current_subject.subject_id

\* C10: when requests are served one at a time, the roll_no of every
\* attendance row is the roll_no of a row of students.
C10_NoOrphanAttendance ==
    \A r \in attendance : SelectStudent(students, r.roll_no) # {}

\* C10 witness: attendance was written again after a /clear-data had
\* emptied both tables.
C10_Witness ==
    /\ attendance # {}
    /\ seq > Cardinality(attendance)
    /\ \A r \in attendance : r.log_id = seq

====
